---- MODULE Spec2Model ----
(***************************************************************************)
(* The OAI 5G core bundle: seven Juju charms (nrf, db, amf, smf, spgwu,    *)
(* gnb, nr-ue), each a dependency-gated reconciliation controller over a   *)
(* pebble workload and a set of relation data bags.                        *)
(*                                                                         *)
(* One action is one event handler of one charm, run start to finish (the  *)
(* operator framework dispatches one event at a time).  A handler is       *)
(* written as the composition of its helper calls over a "machine" record  *)
(* m that carries the unit's view while the handler runs: a helper is the  *)
(* identity once m.out has left "run" (an exception or a return unwinds    *)
(* the rest of the handler).                                               *)
(***************************************************************************)
EXTENDS Integers, Sequences, FiniteSets, TLC

VARIABLES
    topo,         \* the deployment under study (fixed by Init): its charms and relations
    joined,       \* joined[l]: the relation of link l = <<provider, consumer>> exists
    bag,          \* bag[l]: the provider-side application data bag of link l
    exists,       \* exists[u]: the main service is in the pebble plan of u
    running,      \* running[u]: the main service of u is running
    leader,       \* leader[u]: this instance of u is the elected leader
    status,       \* status[u]: the unit status
    stored,       \* stored[u][d]: StoredState values loaded from dependency d
    planEnv,      \* planEnv[u]: environment of the main service in the plan
    startedEver,  \* startedEver[u]: start was issued at least once (history)
    k8s,          \* k8s[u]: the persisted flags _k8s_authed and _k8s_stateful_patched,
                  \* and how many install hooks ran, StatefulSet patches went
                  \* through and service remappings were made (history)
    scan,         \* the call of search_logs in progress: its arguments, the tokens
                  \* credited so far, the line read last and whether the reader
                  \* is past the output buffered before the call
    last          \* what the most recent handler did (history)

vars == <<topo, joined, bag, exists, running, leader, status,
          stored, planEnv, startedEver, k8s, scan, last>>

deployed == topo.units

----------------------------------------------------------------------------
(* Topology of the bundle *)

Units == {"nrf", "db", "amf", "smf", "spgwu", "gnb", "ue"}

\* <<provider, consumer>>; the relation endpoint is named after the provider.
Links == { <<"nrf", "amf">>, <<"db", "amf">>,
           <<"nrf", "smf">>, <<"amf", "smf">>,
           <<"nrf", "spgwu">>, <<"smf", "spgwu">>,
           <<"amf", "gnb">>, <<"spgwu", "gnb">>,
           <<"gnb", "ue">> }

Deps(u) == { l[1] : l \in { x \in Links : x[2] = u } }

Provided(u) == { l \in Links : l[1] = u }

Dependent == { u \in Units : Deps(u) # {} }

Providers == { u \in Units : Provided(u) # {} }

\* smf, spgwu and gnb share one shape of charm; amf, ue, nrf and db differ.
GenericUnits == {"smf", "spgwu", "gnb"}

----------------------------------------------------------------------------
(* Relation data: a bag is a Python dict, here a function whose domain is  *)
(* the set of keys present.                                                *)

NoneV == "<None>"

EmptyBag == [k \in {} |-> ""]

Get(b, k) == IF k \in DOMAIN b THEN b[k] ELSE NoneV

Write(b, w) == [k \in (DOMAIN b) \cup (DOMAIN w) |-> IF k \in DOMAIN w THEN w[k] ELSE b[k]]

\* Python truthiness of a value read from a bag (None and "" are falsy).
Truthy(v) == v \notin {NoneV, ""}

HTTP1_PORT == 80

MYSQL_PORT == 3306

\* unit-get private-address: some non-empty address.
PodIp(u) == "ip-" \o u

AppName(u) == "oai-" \o u

\* A publisher that writes the host key alone; the charms write every key
\* their consumers require.
Published_host_only(u) ==
    IF u \in {"nrf", "db", "amf", "smf", "spgwu", "gnb"}
    THEN ("host" :> AppName(u))
    ELSE EmptyBag

\* The data each provider writes on its own endpoint.
Published(u) ==
    CASE u = "nrf" -> ("host" :> AppName(u)) @@ ("port" :> ToString(HTTP1_PORT))
                      @@ ("api-version" :> "v1")
      [] u = "db"  -> ("host" :> AppName(u)) @@ ("port" :> ToString(MYSQL_PORT))
                      @@ ("user" :> "root") @@ ("password" :> "root")
                      @@ ("database" :> "oai_db")
      [] u = "amf" -> ("host" :> AppName(u)) @@ ("ip-address" :> PodIp(u))
                      @@ ("port" :> ToString(HTTP1_PORT)) @@ ("api-version" :> "v1")
      [] u \in {"smf", "spgwu"} -> ("ready" :> "True")
      [] u = "gnb" -> ("host" :> PodIp(u))
      [] OTHER -> EmptyBag

\* Dependencies whose stored value is the boolean (get("ready") == "True").
FlagDep(u, d) == (u = "spgwu" /\ d = "smf") \/ (u = "gnb" /\ d = "spgwu")

\* The relation keys _load_<d>_data of u copies into StoredState.
LoadKeys(u, d) ==
    CASE FlagDep(u, d) -> {"ready"}
      [] d = "db" -> {"host", "port", "user", "password", "database"}
      [] u = "gnb" /\ d = "amf" -> {"ip-address", "port", "api-version"}
      [] OTHER -> {"host", "port", "api-version"}

\* The keys is_<d>_ready of u requires (ue looks at gnb_host alone).
ReadyKeys(u, d) == IF u = "ue" THEN {"host"} ELSE LoadKeys(u, d)

----------------------------------------------------------------------------
(* The readiness predicate of the data model, read off the relation store: *)
(* channel exists and every required key is present and non-empty.         *)

SatisfiedDep(u, d) ==
    /\ joined[<<d, u>>]
    /\ \A k \in ReadyKeys(u, d) : Truthy(Get(bag[<<d, u>>], k))

Satisfied(u) == \A d \in Deps(u) : SatisfiedDep(u, d)

----------------------------------------------------------------------------
(* The machine a handler runs on *)

\* The most pebble client calls one handler makes (pebble-ready of smf:
\* add_layer, get_plan, add_layer, get_plan, get_service, start, get_plan,
\* get_service).
MaxPebbleCalls == 8

\* fail = k: the pebble socket is unreachable from the (k+1)-th client call of
\* the handler on; MaxPebbleCalls: it stays reachable.
FailPoints == 0..MaxPebbleCalls

NoLast == [unit |-> "none", handler |-> "none", out |-> "none", calls |-> <<>>,
           kept |-> TRUE, wrote |-> FALSE, writeOk |-> TRUE]

Machine(u, fail, crash, detect) ==
    [u |-> u, status |-> status[u], running |-> running[u], exists |-> exists[u],
     env |-> planEnv[u], stored |-> stored[u], bag |-> bag,
     leader |-> leader[u], calls |-> <<>>, out |-> "run", n |-> 0,
     fail |-> fail, crash |-> crash, detect |-> detect,
     podip |-> TRUE, ret |-> FALSE, k8s |-> k8s[u],
     wrote |-> FALSE, writeOk |-> TRUE, started |-> FALSE]

Live(m) == m.out = "run"

Log(m, c) == IF Live(m) THEN [m EXCEPT !.calls = Append(@, c)] ELSE m

\* One call of the pebble client: raises ConnectionError when the socket is
\* unreachable.
Pebble(m, op) ==
    IF ~Live(m) THEN m
    ELSE IF m.n >= m.fail THEN [m EXCEPT !.out = "connerr"]
    ELSE [m EXCEPT !.n = @ + 1]

Return(m) == IF Live(m) THEN [m EXCEPT !.out = "ret"] ELSE m

SetStatus(m, s) ==
    IF Live(m) THEN Log([m EXCEPT !.status = s], "status:" \o s) ELSE m

\* except ConnectionError: event.defer()
Try(m) == IF m.out = "connerr" THEN [m EXCEPT !.out = "deferred"] ELSE m

\* The workload is an external process: while a handler blocks (a log scan,
\* a sleep) it may exit.
WaitPoint(m) ==
    IF Live(m) /\ m.crash THEN [m EXCEPT !.running = FALSE] ELSE m

----------------------------------------------------------------------------
(* The generated configuration *)

\* <<environment key, dependency, relation key>> of _configure_service.
EnvTable(u) ==
    CASE u = "amf" -> { <<"NRF_FQDN", "nrf", "host">>, <<"NRF_PORT", "nrf", "port">>,
                        <<"NRF_API_VERSION", "nrf", "api-version">>,
                        <<"MYSQL_SERVER", "db", "host">>, <<"MYSQL_USER", "db", "user">>,
                        <<"MYSQL_PASS", "db", "password">>, <<"MYSQL_DB", "db", "database">> }
      [] u = "smf" -> { <<"NRF_FQDN", "nrf", "host">>, <<"NRF_PORT", "nrf", "port">>,
                        <<"NRF_API_VERSION", "nrf", "api-version">>,
                        <<"AMF_PORT", "amf", "port">>,
                        <<"AMF_API_VERSION", "amf", "api-version">>,
                        <<"AMF_FQDN", "amf", "host">> }
      [] u = "spgwu" -> { <<"NRF_FQDN", "nrf", "host">>, <<"NRF_PORT", "nrf", "port">>,
                          <<"NRF_API_VERSION", "nrf", "api-version">> }
      [] u = "gnb" -> { <<"AMF_IP_ADDRESS", "amf", "ip-address">> }
      [] u = "ue" -> { <<"RFSIMULATOR", "gnb", "host">> }
      [] OTHER -> {}

\* The literal entries of the same layer.
EnvFixed(u) ==
    CASE u = "amf" -> ("NRF_IPV4_ADDRESS" :> "0.0.0.0")
      [] u = "smf" -> ("NRF_IPV4_ADDRESS" :> "127.0.0.1") @@ ("AMF_IPV4_ADDRESS" :> "127.0.0.1")
      [] u = "spgwu" -> ("REGISTER_NRF" :> "yes") @@ ("USE_FQDN_NRF" :> "yes")
                        @@ ("NRF_IPV4_ADDRESS" :> "127.0.0.1")
      [] OTHER -> EmptyBag

\* The dependency-derived environment built from the stored values st.
DepEnv(u, st) ==
    LET tab == EnvTable(u)
        keys == { t[1] : t \in tab }
        row(e) == CHOOSE t \in tab : t[1] = e
    IN  [e \in keys |-> st[row(e)[2]][row(e)[3]]] @@ EnvFixed(u)

\* The environment of the base layer (one representative static key).
BaseEnv(u) == IF u = "db" THEN ("MYSQL_DATABASE" :> "oai_db") ELSE ("TZ" :> "Europe/Paris")

----------------------------------------------------------------------------
(* Dependency resolver: _load_<d>_data and is_<d>_ready *)

\* A resolver that keeps the values stored by an earlier pass when the
\* relation is absent or silent ("last known good"); the charms do not.
load_data_last_known_good(m, d) ==
    IF ~Live(m) THEN m
    ELSE LET l == <<d, m.u>>
             keep == ~joined[l] \/ m.bag[l] = EmptyBag
             vals == IF FlagDep(m.u, d)
                     THEN [k \in {"ready"} |-> Get(m.bag[l], "ready") = "True"]
                     ELSE [k \in LoadKeys(m.u, d) |-> Get(m.bag[l], k)]
         IN  Log([m EXCEPT !.stored[d] = IF keep THEN @ ELSE vals], "load:" \o d)

\* A resolver that forgets the values it holds instead of reading the
\* relation again; the charms read the relation on every pass.
load_data_forgetting(m, d) ==
    IF ~Live(m) THEN m
    ELSE LET l == <<d, m.u>>
             held == IF FlagDep(m.u, d) THEN m.stored[d]["ready"]
                     ELSE \E k \in LoadKeys(m.u, d) : Truthy(m.stored[d][k])
             none == IF FlagDep(m.u, d) THEN [k \in {"ready"} |-> FALSE]
                     ELSE [k \in LoadKeys(m.u, d) |-> NoneV]
             vals == IF FlagDep(m.u, d)
                     THEN [k \in {"ready"} |-> joined[l] /\ Get(m.bag[l], "ready") = "True"]
                     ELSE [k \in LoadKeys(m.u, d) |->
                              IF joined[l] THEN Get(m.bag[l], k) ELSE NoneV]
         IN  Log([m EXCEPT !.stored[d] = IF held THEN none ELSE vals], "load:" \o d)

load_data(m, d) ==
    IF ~Live(m) THEN m
    ELSE LET l == <<d, m.u>>
             present == joined[l]
             rd == m.bag[l]
             vals == IF FlagDep(m.u, d)
                     THEN [k \in {"ready"} |-> present /\ Get(rd, "ready") = "True"]
                     ELSE [k \in LoadKeys(m.u, d) |-> IF present THEN Get(rd, k) ELSE NoneV]
         IN  Log([m EXCEPT !.stored[d] = vals], "load:" \o d)

is_ready(m, d) ==
    IF FlagDep(m.u, d) THEN m.stored[d]["ready"]
    ELSE \A k \in ReadyKeys(m.u, d) : Truthy(m.stored[d][k])

----------------------------------------------------------------------------
(* Workload controller of OaiCharm (amf) *)

service_exists(m) == Pebble(m, "get_plan")

is_service_running(m) ==
    LET m1 == Pebble(m, "get_plan")
    IN  IF Live(m1) /\ m1.exists THEN Pebble(m1, "get_service") ELSE m1

start_service(m) ==
    LET m1 == Pebble(Pebble(m, "get_plan"), "start")
    IN  IF Live(m1) THEN Log([m1 EXCEPT !.running = TRUE, !.started = TRUE], "start") ELSE m1

stop_service(m) ==
    LET m1 == Pebble(m, "stop")
    IN  IF Live(m1) THEN Log([m1 EXCEPT !.running = FALSE], "stop") ELSE m1

\* The write loop of _provide_service_info: every relation of the own endpoint.
WriteInfo(m) ==
    IF ~Live(m) THEN m
    ELSE LET rels == { l \in Provided(m.u) : joined[l] }
         IN  IF rels = {} THEN m
             ELSE Log([m EXCEPT
                         !.bag = [l \in Links |-> IF l \in rels
                                                  THEN Write(m.bag[l], Published(m.u))
                                                  ELSE m.bag[l]],
                         !.wrote = TRUE,
                         !.writeOk = m.writeOk /\ m.leader /\ m.running],
                      "publish")

----------------------------------------------------------------------------
(* amf *)

Amf_provide_service_info(m) == WriteInfo(m)

Amf_configure_service(m) ==
    LET m1 == service_exists(m)
    IN  IF ~Live(m1) THEN m1
        ELSE IF ~m1.exists THEN m1
        ELSE LET m2 == Pebble(m1, "add_layer")
             IN  IF Live(m2)
                 THEN Log([m2 EXCEPT !.env = Write(@, DepEnv(m.u, m.stored))], "configure")
                 ELSE m2

\* search_logs(logs=..., wait=True): the scan of the workload's output; its
\* verdict is m.detect.
\* A wait that does not read the verdict of the scan; the charm does.
Amf_wait_ignoring_scan(m) ==
    SetStatus(WaitPoint(Log(SetStatus(m, "waiting"),
                            IF m.detect THEN "detect:true" ELSE "detect:false")),
              "active")

Amf_wait_until_service_is_active(m) ==
    LET m1 == WaitPoint(Log(SetStatus(m, "waiting"), IF m.detect THEN "detect:true" ELSE "detect:false"))
    IN  IF m.detect THEN SetStatus(m1, "active") ELSE SetStatus(m1, "blocked")

Amf_update_body(m) ==
    LET m1 == service_exists(m)
    IN  IF ~Live(m1) THEN m1
        ELSE IF ~m1.exists THEN Return(m1)
        ELSE LET m2 == load_data(load_data(m1, "nrf"), "db")
                 relations_ready == is_ready(m2, "nrf") /\ is_ready(m2, "db")
             IN  IF ~relations_ready
                 THEN LET m3 == is_service_running(SetStatus(m2, "blocked"))
                      IN  IF Live(m3) /\ m3.running THEN stop_service(m3) ELSE m3
                 ELSE LET m3 == is_service_running(m2)
                      IN  IF Live(m3) /\ ~m3.running
                          THEN LET m4 == Amf_wait_until_service_is_active(
                                             start_service(Amf_configure_service(m3)))
                               IN  IF Live(m4) /\ m4.leader
                                   THEN Amf_provide_service_info(m4)
                                   ELSE m4
                          ELSE m3

Amf_update_service(m) == Try(Amf_update_body(m))

Amf_on_amf_relation_joined(m) ==
    LET m1 == IF m.leader THEN is_service_running(m) ELSE m
    IN  Try(IF Live(m1) /\ m1.leader /\ m1.running THEN Amf_provide_service_info(m1) ELSE m1)

----------------------------------------------------------------------------
(* nrf, db, smf, spgwu, gnb, ue: the charms that carry their own helpers *)

\* The property is_service_running.
is_service_running_prop(m) ==
    LET m1 == Pebble(m, "get_plan")
    IN  IF Live(m1) /\ m1.exists THEN Pebble(m1, "get_service") ELSE m1

\* A publisher that checks leadership alone; the charms check the workload too.
provide_service_info_unchecked(m) ==
    IF m.leader /\ (m.u = "gnb" => m.podip) THEN WriteInfo(m) ELSE m

provide_service_info(m) ==
    LET m1 == IF m.leader THEN is_service_running_prop(m) ELSE m
    IN  IF Live(m1) /\ m1.leader /\ m1.running /\ (m1.u = "gnb" => m1.podip)
        THEN WriteInfo(m1)
        ELSE m1

\* A configuration step that replaces the environment of the service; the
\* charms give their layer the override "merge".
Gen_configure_service_replacing(m) ==
    LET m1 == Pebble(m, "get_plan")
    IN  IF ~Live(m1) THEN m1
        ELSE IF ~m1.exists THEN m1
        ELSE LET m2 == Pebble(m1, "add_layer")
             IN  IF Live(m2)
                 THEN Log([m2 EXCEPT !.env = DepEnv(m.u, m.stored)], "configure")
                 ELSE m2

Gen_configure_service(m) ==
    LET m1 == Pebble(m, "get_plan")
    IN  IF ~Live(m1) THEN m1
        ELSE IF ~m1.exists THEN m1
        ELSE LET m2 == Pebble(m1, "add_layer")
             IN  IF Live(m2)
                 THEN Log([m2 EXCEPT !.env = Write(@, DepEnv(m.u, m.stored))], "configure")
                 ELSE m2

\* container.get_service raises ModelError for a service that is not in the plan.
GetService(m) ==
    LET m1 == Pebble(m, "get_service")
    IN  IF Live(m1) /\ ~m1.exists THEN [m1 EXCEPT !.out = "modelerr"] ELSE m1

\* A start that does not look at whether the workload is running; the charms
\* start it only when it is not.
Gen_start_service_always(m) ==
    LET m1 == GetService(Pebble(m, "get_plan"))
    IN  IF ~Live(m1) THEN m1
        ELSE IF m1.exists
        THEN LET m2 == Pebble(m1, "start")
             IN  IF Live(m2)
                 THEN Log([m2 EXCEPT !.running = TRUE, !.started = TRUE, !.ret = TRUE],
                          "start")
                 ELSE m2
        ELSE [m1 EXCEPT !.ret = FALSE]

\* _start_service of smf, spgwu, gnb and ue (smf sleeps 30 s after start).
Gen_start_service(m) ==
    LET m1 == GetService(Pebble(m, "get_plan"))
    IN  IF ~Live(m1) THEN m1
        ELSE IF m1.exists /\ ~m1.running
        THEN LET m2 == Pebble(m1, "start")
                 m3 == IF Live(m2)
                       THEN Log([m2 EXCEPT !.running = TRUE, !.started = TRUE, !.ret = TRUE],
                                "start")
                       ELSE m2
             IN  IF m.u = "smf" THEN WaitPoint(m3) ELSE m3
        ELSE [m1 EXCEPT !.ret = FALSE]

\* _start_service of nrf and db.
Nrf_start_service(m) ==
    LET m0 == Pebble(m, "get_plan")
        m1 == IF Live(m0) /\ m0.exists THEN Pebble(m0, "get_service") ELSE m0
    IN  IF ~Live(m1) THEN m1
        ELSE IF m1.exists /\ ~m1.running
        THEN LET m2 == Pebble(m1, "start")
             IN  IF Live(m2)
                 THEN Log([m2 EXCEPT !.running = TRUE, !.started = TRUE, !.ret = TRUE],
                          "start")
                 ELSE m2
        ELSE [m1 EXCEPT !.ret = FALSE]

\* A stop that writes the readiness data again; the charms write nothing
\* on this path.
Gen_stop_service_republishing(m) ==
    LET m0 == Pebble(m, "get_plan")
        m1 == IF Live(m0) /\ m0.exists THEN Pebble(m0, "get_service") ELSE m0
    IN  WriteInfo(IF Live(m1) /\ m1.exists /\ m1.running
                  THEN LET m2 == Pebble(m1, "stop")
                       IN  IF Live(m2) THEN Log([m2 EXCEPT !.running = FALSE], "stop") ELSE m2
                  ELSE m1)

\* A stop that leaves the workload as it is; the charms stop it.
Gen_stop_service_skipped(m) == m

Gen_stop_service(m) ==
    LET m0 == Pebble(m, "get_plan")
        m1 == IF Live(m0) /\ m0.exists THEN Pebble(m0, "get_service") ELSE m0
    IN  IF Live(m1) /\ m1.exists /\ m1.running
        THEN LET m2 == Pebble(m1, "stop")
             IN  IF Live(m2) THEN Log([m2 EXCEPT !.running = FALSE], "stop") ELSE m2
        ELSE m1

LoadAll(m) ==
    CASE m.u = "smf" -> load_data(load_data(m, "amf"), "nrf")
      [] m.u = "spgwu" -> load_data(load_data(m, "nrf"), "smf")
      [] m.u = "gnb" -> load_data(load_data(m, "amf"), "spgwu")
      [] m.u = "ue" -> load_data(m, "gnb")
      [] OTHER -> m

AllReady(m) == \A d \in Deps(m.u) : is_ready(m, d)

\* A pass that starts the workload before it applies the layer; the charms
\* apply the layer first.
Gen_update_service_start_first(m) ==
    LET m1 == LoadAll(m)
    IN  IF AllReady(m1)
        THEN LET m3 == Gen_start_service(m1)
             IN  IF Live(m3) /\ m3.ret
                 THEN SetStatus(provide_service_info(Gen_configure_service(m3)), "active")
                 ELSE m3
        ELSE SetStatus(Gen_stop_service(m1), "blocked")

\* _update_service of smf, spgwu and gnb.
Gen_update_service(m) ==
    LET m1 == LoadAll(m)
    IN  IF AllReady(m1)
        THEN LET m2 == Gen_configure_service(m1)
             IN  IF m2.out = "connerr" THEN Try(m2)
                 ELSE LET m3 == Gen_start_service(m2)
                      IN  IF Live(m3) /\ m3.ret
                          THEN SetStatus(provide_service_info(m3), "active")
                          ELSE m3
        ELSE SetStatus(Gen_stop_service(m1), "blocked")

Ue_update_service(m) ==
    LET m1 == LoadAll(m)
    IN  IF AllReady(m1)
        THEN LET m2 == Gen_configure_service(m1)
             IN  IF m2.out = "connerr" THEN Try(m2)
                 ELSE SetStatus(Gen_start_service(m2), "active")
        ELSE SetStatus(Gen_stop_service(m1), "blocked")

Nrf_update_service(m) ==
    LET m1 == Nrf_start_service(m)
    IN  IF Live(m1) /\ m1.ret
        THEN SetStatus(provide_service_info(WaitPoint(SetStatus(m1, "waiting"))), "active")
        ELSE m1

Db_initialize_db(m) == Pebble(m, "push")

Db_update_service(m) == Nrf_update_service(Db_initialize_db(m))

update_service(m) ==
    CASE m.u = "amf" -> Amf_update_service(m)
      [] m.u \in GenericUnits -> Gen_update_service(m)
      [] m.u = "ue" -> Ue_update_service(m)
      [] m.u = "nrf" -> Nrf_update_service(m)
      [] OTHER -> Db_update_service(m)

\* container.add_layer(<service>, pebble_layer, combine=True) with override
\* "replace": the service definition, its environment included, is replaced.
AddBaseLayer(m) ==
    LET m1 == Pebble(m, "add_layer")
    IN  IF Live(m1)
        THEN Log([m1 EXCEPT !.exists = TRUE, !.env = BaseEnv(m.u)], "base_layer")
        ELSE m1

\* A pebble-ready handler that adds the layer and stops there; the charms
\* go on to the reconciliation pass.
on_pebble_ready_layer_only(m) ==
    IF m.u = "gnb" /\ ~m.podip THEN [m EXCEPT !.out = "deferred"]
    ELSE Try(AddBaseLayer(m))

on_pebble_ready(m) ==
    IF m.u = "gnb" /\ ~m.podip THEN [m EXCEPT !.out = "deferred"]
    ELSE Try(update_service(AddBaseLayer(m)))

----------------------------------------------------------------------------
(* amf: changes on its own endpoint (gNB and UE registration) *)

GnbName == "gnb-rfsim"

UeImsi == "208950000000031"

\* relation.data[self.app][name] = "registered"; Juju refuses an application
\* bag write from a unit that is not the leader.
WriteRegistered(m, l, name) ==
    IF ~Live(m) THEN m
    ELSE IF ~m.leader THEN [m EXCEPT !.out = "modelerr"]
    ELSE Log([m EXCEPT !.bag[l] = Write(@, (name :> "registered"))], "registered:" \o name)

\* search_logs(subsets_in_line=..., wait=True) ends with a line holding the
\* marker and the name (m.detect) or, when `pebble logs` exits, without one;
\* the verdict is not read.
Amf_wait_is_registered(m, name) ==
    SetStatus(Log(SetStatus(m, "waiting"),
                  IF m.detect THEN "scan:" \o name ELSE "scan_ended:" \o name),
              "active")

Amf_on_amf_relation_changed(m, l, gnbStarted, ueStarted) ==
    LET m1 == IF gnbStarted
              THEN WriteRegistered(Amf_wait_is_registered(m, GnbName), l, GnbName)
              ELSE m
    IN  IF ueStarted
        THEN WriteRegistered(Amf_wait_is_registered(m1, UeImsi), l, UeImsi)
        ELSE m1

----------------------------------------------------------------------------
(* install and config-changed: cluster patching and the tcpdump side       *)
(* service.  The tcpdump container has its own plan and process; whether   *)
(* tcpdump runs and the start-tcpdump option are inputs of the handler.    *)

\* _configure_tcpdump_service: one add_layer on the tcpdump container.
configure_tcpdump_service(m) ==
    LET m1 == Pebble(m, "add_layer")
    IN  Log(m1, "tcpdump:configure")

\* A start of tcpdump that does not ask whether it runs; the charms ask.
Gen_start_tcpdump_always(m, tcpRunning) ==
    LET m1 == Pebble(Pebble(m, "get_plan"), "get_service")
    IN  IF Live(m1) THEN Log(Pebble(m1, "start"), "tcpdump:start") ELSE m1

\* _start_service("tcpdump", "tcpdump") of the charms that carry their own
\* helpers; the layer was added, so the service is in the plan.
Gen_start_tcpdump(m, tcpRunning) ==
    LET m1 == Pebble(Pebble(m, "get_plan"), "get_service")
    IN  IF Live(m1) /\ ~tcpRunning
        THEN Log(Pebble(m1, "start"), "tcpdump:start")
        ELSE m1

\* _stop_service("tcpdump", "tcpdump")
Gen_stop_tcpdump(m, tcpRunning) ==
    LET m1 == Pebble(Pebble(m, "get_plan"), "get_service")
    IN  IF Live(m1) /\ tcpRunning
        THEN Log(Pebble(m1, "stop"), "tcpdump:stop")
        ELSE m1

\* _update_tcpdump_service of nrf, smf, spgwu, gnb and ue: the start and the
\* stop are outside the try.
Gen_update_tcpdump_service(m, startTcpdump, tcpRunning) ==
    LET m1 == Try(configure_tcpdump_service(m))
    IN  IF startTcpdump THEN Gen_start_tcpdump(m1, tcpRunning)
        ELSE Gen_stop_tcpdump(m1, tcpRunning)

\* update_tcpdump_service of OaiCharm (amf): service_exists, then
\* is_service_running, then start_service or stop_service, all in the try.
Amf_update_tcpdump_service(m, startTcpdump, tcpRunning) ==
    LET m1 == configure_tcpdump_service(m)
        m2 == Pebble(Pebble(Pebble(m1, "get_plan"), "get_plan"), "get_service")
    IN  Try(IF ~Live(m2) THEN m2
            ELSE IF startTcpdump /\ ~tcpRunning
            THEN Log(Pebble(Pebble(m2, "get_plan"), "start"), "tcpdump:start")
            ELSE IF ~startTcpdump /\ tcpRunning
            THEN Log(Pebble(m2, "stop"), "tcpdump:stop")
            ELSE m2)

\* A config-changed handler that also runs the reconciliation pass; the
\* charms update the tcpdump service only.
on_config_changed_reconciling(m, startTcpdump, tcpRunning) ==
    update_service(m)

\* _on_config_changed
on_config_changed(m, startTcpdump, tcpRunning) ==
    IF m.u = "amf" THEN Amf_update_tcpdump_service(m, startTcpdump, tcpRunning)
    ELSE Gen_update_tcpdump_service(m, startTcpdump, tcpRunning)

\* The charms that ask for a privileged workload container.
Privileged(u) == u # "db"

PatchAttempts == 5

RECURSIVE PatchLoop(_, _, _)
\* The loop of _patch_stateful_set from attempt a on; the first `failures`
\* attempts meet an API error.
PatchLoop(m, a, failures) ==
    IF a > PatchAttempts THEN m
    ELSE LET m1 == SetStatus(m, "maintenance")
         IN  IF a > failures
             THEN Log([m1 EXCEPT !.k8s.patched = TRUE, !.k8s.patches = @ + 1], "patched")
             ELSE PatchLoop(Log(SetStatus(m1, "maintenance"), "patch_failed"),
                            a + 1, failures)

\* The charms return at once when the persisted flag is set.
patch_stateful_set(m, failures) ==
    IF m.k8s.patched THEN m ELSE PatchLoop(m, 1, failures)

\* K8sServicePatch.set_ports raises PatchFailed on an API error.
set_ports(m, portsOk) ==
    IF ~Live(m) THEN m
    ELSE IF portsOk THEN Log([m EXCEPT !.k8s.ports = @ + 1], "set_ports")
    ELSE [m EXCEPT !.out = "patchfailed"]

\* _k8s_auth: load_incluster_config once.
k8s_auth(m) ==
    IF m.k8s.authed THEN m ELSE Log([m EXCEPT !.k8s.authed = TRUE], "k8s_auth")

\* _on_install
on_install(m, failures, portsOk) ==
    LET m1 == k8s_auth(m)
        m2 == IF Privileged(m.u) THEN patch_stateful_set(m1, failures) ELSE m1
    IN  set_ports(m2, portsOk)

----------------------------------------------------------------------------
(* The deployments studied and the data an absent provider may hold *)

DepLinks(u) == { l \in Links : l[2] = u }

\* One charm against an arbitrary environment, with one consumer of its
\* endpoint (if it has an endpoint): every relation of the charm comes and
\* goes.  For amf with gnb as the consumer, the db relation is joined and
\* published from the start.
SingleTopologies ==
    { [units |-> {l[1]}, links |-> DepLinks(l[1]) \cup {l}, fixed |-> {},
       faults |-> TRUE, api |-> FALSE] : l \in Links \ {<<"amf", "gnb">>} }
    \cup
    { [units |-> {"ue"}, links |-> DepLinks("ue"), fixed |-> {}, faults |-> TRUE, api |-> FALSE],
      [units |-> {"amf"}, links |-> {<<"nrf", "amf">>, <<"amf", "gnb">>},
       fixed |-> {<<"db", "amf">>}, faults |-> TRUE, api |-> FALSE] }

\* A provider with one of its consumers: the relation between them comes and
\* goes, as does one relation to a charm outside the pair (a dependency of the
\* provider when it has one); the others are joined and published from the start.
\* Pebble is reachable or not for a whole handler, and the workloads exit
\* between handlers only.
Upstream(l) ==
    IF DepLinks(l[1]) # {} THEN CHOOSE d \in DepLinks(l[1]) : TRUE
    ELSE CHOOSE d \in DepLinks(l[2]) \ {l} : TRUE

PairTopologies ==
    { [units |-> {l[1], l[2]}, links |-> {l, Upstream(l)},
       fixed |-> (DepLinks(l[1]) \cup DepLinks(l[2])) \ {l, Upstream(l)},
       faults |-> FALSE, api |-> FALSE] : l \in Links }

EnvBags(p) == {EmptyBag, Published(p)}

----------------------------------------------------------------------------
(* State machine *)

\* No call of search_logs is in progress.
NoScan == [state |-> "idle", logs |-> {}, subsets |-> {}, order |-> <<>>, wait |-> FALSE,
           found |-> {}, seen |-> {}, line |-> {}, live |-> FALSE, fresh |-> {}]

\* self._stored.set_default(_k8s_stateful_patched=False, _k8s_authed=False)
NoK8s == [authed |-> FALSE, patched |-> FALSE, installs |-> 0, patches |-> 0, ports |-> 0]

DefaultStored(u) ==
    [d \in Deps(u) |-> IF FlagDep(u, d) THEN [k \in {"ready"} |-> FALSE]
                       ELSE [k \in LoadKeys(u, d) |-> NoneV]]

InitWith(topologies) ==
    /\ topo \in topologies
    /\ joined = [l \in Links |-> l \in topo.fixed]
    /\ bag = [l \in Links |-> IF l \in topo.fixed THEN Published(l[1]) ELSE EmptyBag]
    /\ exists = [u \in Units |-> FALSE]
    /\ running = [u \in Units |-> FALSE]
    /\ leader = [u \in Units |-> u \in deployed]
    /\ status = [u \in Units |-> "maintenance"]
    /\ stored = [u \in Units |-> DefaultStored(u)]
    /\ planEnv = [u \in Units |-> EmptyBag]
    /\ startedEver = [u \in Units |-> FALSE]
    /\ k8s = [u \in Units |-> NoK8s]
    /\ scan = NoScan
    /\ last = NoLast

\* The inputs a handler of u can tell apart.
FailIn == IF topo.faults THEN FailPoints ELSE {0, MaxPebbleCalls}

CrashIn(u) == IF topo.faults /\ u \in {"amf", "smf", "nrf", "db"} THEN BOOLEAN ELSE {FALSE}

DetectIn(u) == IF u = "amf" THEN BOOLEAN ELSE {FALSE}

PodIpIn(u) == IF u = "gnb" THEN BOOLEAN ELSE {TRUE}

\* How many attempts of the StatefulSet patch meet an API error, and whether
\* the service patch goes through.
ApiFailuresIn == IF topo.api THEN 0..PatchAttempts ELSE {0}

PortsOkIn == IF topo.api THEN BOOLEAN ELSE {TRUE}

Raised(m) == m.out \in {"connerr", "modelerr", "patchfailed"}

Outcome(m) ==
    CASE m.out \in {"run", "ret"} -> "done"
      [] m.out = "connerr" -> "raised:ConnectionError"
      [] m.out = "modelerr" -> "raised:ModelError"
      [] m.out = "patchfailed" -> "raised:PatchFailed"
      [] OTHER -> m.out

\* The effects of a handler.  Pebble and the unit status are changed as the
\* handler goes; StoredState and relation data are committed by the framework
\* when the handler returns, and dropped when it raises.
Commit(u, h, result) ==
    \E m \in {result} :
    /\ status' = [status EXCEPT ![u] = m.status]
    /\ running' = [running EXCEPT ![u] = m.running]
    /\ exists' = [exists EXCEPT ![u] = m.exists]
    /\ planEnv' = [planEnv EXCEPT ![u] = m.env]
    /\ stored' = IF Raised(m) THEN stored ELSE [stored EXCEPT ![u] = m.stored]
    /\ bag' = IF Raised(m) THEN bag ELSE m.bag
    /\ startedEver' = [startedEver EXCEPT ![u] = @ \/ m.started]
    /\ k8s' = [k8s EXCEPT ![u] = IF Raised(m)
                                  THEN [m.k8s EXCEPT !.authed = k8s[u].authed,
                                                     !.patched = k8s[u].patched]
                                  ELSE m.k8s]
    /\ last' = [unit |-> u, handler |-> h, out |-> Outcome(m), calls |-> m.calls,
                kept |-> (m.status = status[u]), wrote |-> m.wrote /\ ~Raised(m),
                writeOk |-> m.writeOk]
    /\ UNCHANGED <<topo, joined, leader, scan>>

\* <container>-pebble-ready, pebble failing at one of `fails`, the pod
\* address known or not as in `podips` and the activation scan ending as in
\* `detects`.
PebbleReadyWith(u, fails, podips, detects) ==
    /\ u \in deployed
    /\ \E fail \in fails, crash \in CrashIn(u), detect \in detects, podip \in podips :
          Commit(u, "pebble_ready",
                 on_pebble_ready([Machine(u, fail, crash, detect) EXCEPT !.podip = podip]))

PebbleReady(u) == PebbleReadyWith(u, FailIn, PodIpIn(u), DetectIn(u))

\* <dependency>-relation-changed and <dependency>-relation-broken
RelationEventWith(u, fails, podips, detects) ==
    /\ u \in deployed \cap Dependent
    /\ \E fail \in fails, crash \in CrashIn(u), detect \in detects, podip \in podips :
          Commit(u, "relation_event",
                 update_service([Machine(u, fail, crash, detect) EXCEPT !.podip = podip]))

RelationEvent(u) == RelationEventWith(u, FailIn, PodIpIn(u), DetectIn(u))

\* A relation-joined handler that does nothing; the charms publish.
on_relation_joined_ignored(m) == m

\* A relation-joined handler that runs the reconciliation pass; the charms
\* publish and do nothing else.
on_relation_joined_reconciling(m) == update_service(m)

\* _on_amf_relation_joined of amf; the other providers observe
\* <own endpoint>-relation-joined with _provide_service_info itself.
on_relation_joined(m) ==
    IF m.u = "amf" THEN Amf_on_amf_relation_joined(m) ELSE provide_service_info(m)

\* <own endpoint>-relation-joined
RelationJoinedWith(u, fails, podips) ==
    /\ u \in deployed \cap Providers
    /\ \E l \in Provided(u) : joined[l]
    /\ \E fail \in fails, podip \in podips :
          Commit(u, "relation_joined",
                 on_relation_joined([Machine(u, fail, FALSE, FALSE) EXCEPT !.podip = podip]))

RelationJoined(u) == RelationJoinedWith(u, {0, 1, MaxPebbleCalls}, PodIpIn(u))

\* amf-relation-changed on amf: the gNB side reports a started gNB or UE.
AmfRelationChanged(l) ==
    /\ "amf" \in deployed
    /\ l = <<"amf", "gnb">> /\ joined[l]
    /\ \E gnbStarted \in BOOLEAN, ueStarted \in BOOLEAN, detect \in BOOLEAN :
          /\ gnbStarted \/ ueStarted
          /\ Commit("amf", "amf_relation_changed",
                    Amf_on_amf_relation_changed(Machine("amf", MaxPebbleCalls, FALSE, detect),
                                                l, gnbStarted, ueStarted))

\* The install hook runs before any other handler has acted.
InstallHook(u) ==
    /\ u \in deployed
    /\ ~exists[u] /\ ~startedEver[u] /\ status[u] = "maintenance"
    /\ stored[u] = DefaultStored(u) /\ planEnv[u] = EmptyBag
    /\ \E failures \in ApiFailuresIn, portsOk \in PortsOkIn :
          Commit(u, "install",
                 on_install([Machine(u, MaxPebbleCalls, FALSE, FALSE)
                                 EXCEPT !.k8s.installs = @ + 1],
                            failures, portsOk))

\* install: the first hook of a unit.
Install(u) == k8s[u].installs = 0 /\ InstallHook(u)

\* The install hooks delivered to one unit that the model follows.
MaxInstalls == 3

\* install delivered again: Juju runs a hook that raised once more, and a
\* unit may see the event repeated.
InstallAgain(u) ==
    /\ k8s[u].installs > 0 /\ k8s[u].installs < MaxInstalls
    /\ InstallHook(u)

\* config-changed (db observes none) with the start-tcpdump option as given,
\* met by a tcpdump service that runs or not.
ConfigChangedWith(u, fail, startTcpdump, tcpRunning) ==
    /\ u \in deployed \ {"db"}
    /\ Commit(u, "config_changed",
              on_config_changed(Machine(u, fail, FALSE, FALSE), startTcpdump, tcpRunning))

ConfigChanged(u) ==
    \E fail \in FailIn, startTcpdump \in BOOLEAN, tcpRunning \in BOOLEAN :
        ConfigChangedWith(u, fail, startTcpdump, tcpRunning)

(* The environment *)

Join(l) ==
    /\ l \in topo.links /\ ~joined[l]
    /\ joined' = [joined EXCEPT ![l] = TRUE]
    /\ bag' = [bag EXCEPT ![l] = EmptyBag]
    /\ last' = NoLast
    /\ UNCHANGED <<topo, exists, running, leader, status, stored, planEnv, startedEver, k8s, scan>>

Break(l) ==
    /\ l \in topo.links /\ joined[l]
    /\ joined' = [joined EXCEPT ![l] = FALSE]
    /\ bag' = [bag EXCEPT ![l] = EmptyBag]
    /\ last' = NoLast
    /\ UNCHANGED <<topo, exists, running, leader, status, stored, planEnv, startedEver, k8s, scan>>

\* A provider outside the deployment writes its side of the relation.
EnvWrite(l) ==
    /\ l \in topo.links /\ joined[l] /\ l[1] \notin deployed
    /\ \E b \in EnvBags(l[1]) : b # bag[l] /\ bag' = [bag EXCEPT ![l] = b]
    /\ last' = NoLast
    /\ UNCHANGED <<topo, joined, exists, running, leader, status, stored, planEnv,
                   startedEver, k8s, scan>>

\* The workload process exits on its own.
WorkloadExit(u) ==
    /\ u \in deployed /\ running[u]
    /\ running' = [running EXCEPT ![u] = FALSE]
    /\ last' = NoLast
    /\ UNCHANGED <<topo, joined, bag, exists, leader, status, stored, planEnv,
                   startedEver, k8s, scan>>

\* Leadership moves; it is read only by a charm that has a consumer.
LeaderChange(u) ==
    /\ u \in deployed
    /\ \E l \in Provided(u) : l \in topo.links \cup topo.fixed
    /\ leader' = [leader EXCEPT ![u] = ~@]
    /\ last' = NoLast
    /\ UNCHANGED <<topo, joined, bag, exists, running, status, stored, planEnv,
                   startedEver, k8s, scan>>

Next ==
    \/ \E u \in Units : PebbleReady(u)
    \/ \E u \in Units : RelationEvent(u)
    \/ \E u \in Units : RelationJoined(u)
    \/ \E l \in Links : AmfRelationChanged(l)
    \/ \E l \in Links : Join(l)
    \/ \E l \in Links : Break(l)
    \/ \E l \in Links : EnvWrite(l)
    \/ \E u \in Units : WorkloadExit(u)
    \/ \E u \in Units : LeaderChange(u)

Init == InitWith(SingleTopologies)

Spec == Init /\ [][Next]_vars

InitBundle == InitWith(PairTopologies)

SpecBundle == InitBundle /\ [][Next]_vars

----------------------------------------------------------------------------
(* The dependency resolver against arbitrary relation contents: one       *)
(* dependent charm whose providers, all outside the deployment, write     *)
(* complete, partial, blank and unexpected data.                          *)

Without(b, k) == [x \in (DOMAIN b) \ {k} |-> b[x]]

Blanked(b, k) == [x \in DOMAIN b |-> IF x = k THEN "" ELSE b[x]]

\* The keys a provider may hold with an empty value.
BlankKeys == {"host", "ip-address", "ready"}

\* What provider p may have on its side of a relation: nothing, its full
\* data, its data with one key missing or empty, or a ready flag that does
\* not read "True".
AnyBags(p) ==
    {EmptyBag, Published(p)}
    \cup { Without(Published(p), k) : k \in DOMAIN Published(p) }
    \cup { Blanked(Published(p), k) : k \in (DOMAIN Published(p)) \cap BlankKeys }
    \cup (IF "ready" \in DOMAIN Published(p) THEN {("ready" :> "False")} ELSE {})

ResolverTopologies ==
    { [units |-> {u}, links |-> DepLinks(u), fixed |-> {}, faults |-> FALSE, api |-> FALSE] :
        u \in Dependent }

EnvWriteAny(l) ==
    /\ l \in topo.links /\ joined[l] /\ l[1] \notin deployed
    /\ \E b \in AnyBags(l[1]) : b # bag[l] /\ bag' = [bag EXCEPT ![l] = b]
    /\ last' = NoLast
    /\ UNCHANGED <<topo, joined, exists, running, leader, status, stored, planEnv,
                   startedEver, k8s, scan>>

NextResolver ==
    \/ \E u \in Units : PebbleReady(u)
    \/ \E u \in Units : RelationEvent(u)
    \/ \E l \in Links : Join(l)
    \/ \E l \in Links : Break(l)
    \/ \E l \in Links : EnvWriteAny(l)
    \/ \E u \in Units : WorkloadExit(u)

InitResolver == InitWith(ResolverTopologies)

SpecResolver == InitResolver /\ [][NextResolver]_vars

----------------------------------------------------------------------------
(* Every event a charm observes on its own workload and its dependencies:  *)
(* install and config-changed next to the reconciliation handlers.  The    *)
(* two change nothing the reconciliation reads, so the specifications      *)
(* above leave them out.                                                   *)

NextEvents ==
    \/ \E u \in Units : Install(u)
    \/ \E u \in Units : ConfigChanged(u)
    \/ \E u \in Units : PebbleReady(u)
    \/ \E u \in Units : RelationEvent(u)
    \/ \E l \in Links : Join(l)
    \/ \E l \in Links : Break(l)
    \/ \E l \in Links : EnvWrite(l)
    \/ \E u \in Units : WorkloadExit(u)

\* One charm, its dependencies outside the deployment, pebble failing at any
\* point.
EventTopologies ==
    { [units |-> {u}, links |-> DepLinks(u), fixed |-> {}, faults |-> TRUE, api |-> FALSE] : u \in Units }

InitEvents == InitWith(EventTopologies)

SpecEvents == InitEvents /\ [][NextEvents]_vars

----------------------------------------------------------------------------
(* The install hook alone, delivered to a unit over and over with the      *)
(* cluster API failing at any point.                                       *)

\* One charm; the cluster API fails at any point.
InstallTopologies ==
    { [units |-> {u}, links |-> {}, fixed |-> {}, faults |-> FALSE, api |-> TRUE] :
        u \in Units }

InitInstall == InitWith(InstallTopologies)

NextInstall ==
    \/ \E u \in Units : Install(u)
    \/ \E u \in Units : InstallAgain(u)

SpecInstall == InitInstall /\ [][NextInstall]_vars

----------------------------------------------------------------------------
(* The activation detector: search_logs of OaiCharm reading the output of  *)
(* `pebble logs`, one line per step.  A line is the set of tokens that     *)
(* occur in it (the empty set: an unrelated line).                         *)

Tokens == {"t1", "t2", "t3"}

\* The orders in which `for log in logs` can go through a set.
Orders(S) ==
    { o \in [1..Cardinality(S) -> S] : \A i, j \in DOMAIN o : o[i] = o[j] => i = j }

\* The first token of the iteration that occurs in the line (the inner loop
\* ends at its break), if there is one.
Credited(order, line) ==
    IF \E i \in DOMAIN order : order[i] \in line
    THEN {order[CHOOSE i \in DOMAIN order :
                    /\ order[i] \in line
                    /\ \A j \in DOMAIN order : order[j] \in line => i <= j]}
    ELSE {}

\* The body of `for line in p.stdout`.
ScanBody(sc, line) ==
    IF sc.logs # {}
    THEN LET found == sc.found \cup Credited(sc.order, line)
         IN  [sc EXCEPT !.found = found, !.line = line,
                        !.seen = @ \cup (line \cap sc.logs),
                        !.state = IF sc.logs \subseteq found THEN "true" ELSE @]
    ELSE [sc EXCEPT !.line = line,
                    !.state = IF sc.subsets \subseteq line THEN "true" ELSE @]

\* search_logs(logs, subsets_in_line, wait) is called: the arguments are
\* checked and `pebble logs` is started.
ScanStart ==
    /\ scan.state # "scanning"
    /\ \E logs \in SUBSET Tokens, subsets \in SUBSET Tokens, wait \in BOOLEAN :
          IF (logs # {}) = (subsets # {})
          THEN scan' = [NoScan EXCEPT !.state = "raised", !.logs = logs,
                                      !.subsets = subsets, !.wait = wait]
          ELSE \E order \in Orders(logs) :
                  scan' = [NoScan EXCEPT !.state = "scanning", !.logs = logs,
                                         !.subsets = subsets, !.order = order,
                                         !.wait = wait]
    /\ UNCHANGED <<topo, joined, bag, exists, running, leader, status, stored, planEnv,
                   startedEver, k8s, last>>

\* `-n all`: the loop reads a line of the output the service wrote before
\* search_logs was called, an earlier run of the workload included.
ScanBuffered(line) ==
    /\ scan.state = "scanning" /\ ~scan.live
    /\ scan' = ScanBody(scan, line)
    /\ UNCHANGED <<topo, joined, bag, exists, running, leader, status, stored, planEnv,
                   startedEver, k8s, last>>

\* The workload writes a line and the loop reads it.
ScanLine(line) ==
    /\ scan.state = "scanning"
    /\ scan' = [ScanBody(scan, line) EXCEPT !.live = TRUE,
                                            !.fresh = @ \cup (line \cap scan.logs)]
    /\ UNCHANGED <<topo, joined, bag, exists, running, leader, status, stored, planEnv,
                   startedEver, k8s, last>>

\* `pebble logs` ends: without -f at the end of the buffered output, with -f
\* when the follower itself exits.  The loop is left with all_logs_found
\* False.
ScanEof ==
    /\ scan.state = "scanning"
    /\ scan' = [scan EXCEPT !.state = "false"]
    /\ UNCHANGED <<topo, joined, bag, exists, running, leader, status, stored, planEnv,
                   startedEver, k8s, last>>

ScanTopologies ==
    { [units |-> {"amf"}, links |-> {}, fixed |-> {}, faults |-> FALSE, api |-> FALSE] }

InitScan == InitWith(ScanTopologies)

NextScan ==
    \/ ScanStart
    \/ \E line \in SUBSET Tokens : ScanBuffered(line)
    \/ \E line \in SUBSET Tokens : ScanLine(line)
    \/ ScanEof

SpecScan == InitScan /\ [][NextScan]_vars

\* The workload keeps writing lines for as long as the loop reads, and
\* `pebble logs` without -f ends once it has written the buffered output.
SpecScanFair ==
    /\ SpecScan
    /\ WF_vars(\E line \in SUBSET Tokens : ScanLine(line))
    /\ WF_vars(ScanEof /\ ~scan.wait)

----------------------------------------------------------------------------
(* Publication under fair delivery: a provider whose dependencies are      *)
(* joined and published from the start, leader throughout, with one        *)
(* relation on its endpoint that is joined at any moment and stays.        *)
(* Pebble is reachable and the pod has its address in every handler.       *)

PublishTopologies ==
    { [units |-> {l[1]}, links |-> {l}, fixed |-> DepLinks(l[1]),
       faults |-> FALSE, api |-> FALSE] : l \in Links }

NextPublish ==
    \/ \E u \in Units : PebbleReadyWith(u, {MaxPebbleCalls}, {TRUE}, DetectIn(u))
    \/ \E u \in Units : RelationEventWith(u, {MaxPebbleCalls}, {TRUE}, DetectIn(u))
    \/ \E u \in Units : RelationJoinedWith(u, {MaxPebbleCalls}, {TRUE})
    \/ \E l \in Links : Join(l)

\* Juju delivers the relation-joined event of a relation that was joined.
SpecPublishFair ==
    /\ InitWith(PublishTopologies) /\ [][NextPublish]_vars
    /\ \A u \in Units : WF_vars(RelationJoinedWith(u, {MaxPebbleCalls}, {TRUE}))

----------------------------------------------------------------------------
(* Delivery order: a provider and one of its consumers, every handler of   *)
(* the two delivered in any order and any number of times while the        *)
(* relations come and go.  Pebble is reachable, the pod has its address    *)
(* and the activation scan of amf succeeds: the order alone varies.        *)

NextOrder ==
    \/ \E u \in Units : PebbleReadyWith(u, {MaxPebbleCalls}, {TRUE}, {TRUE})
    \/ \E u \in Units : RelationEventWith(u, {MaxPebbleCalls}, {TRUE}, {TRUE})
    \/ \E u \in Units : RelationJoinedWith(u, {MaxPebbleCalls}, {TRUE})
    \/ \E l \in Links : Join(l)
    \/ \E l \in Links : Break(l)
    \/ \E l \in Links : EnvWrite(l)

SpecOrder == InitBundle /\ [][NextOrder]_vars

----------------------------------------------------------------------------
(* Late leadership: a provider whose instance is not the leader while it   *)
(* comes up.  Its dependencies are joined and published from the start;    *)
(* the relation on its endpoint is joined and the relation-joined event    *)
(* handled before the instance is elected, and no relation is joined       *)
(* afterwards.  Pebble is reachable and the workload does not exit.        *)

InitLeader ==
    /\ topo \in PublishTopologies
    /\ joined = [l \in Links |-> l \in topo.fixed]
    /\ bag = [l \in Links |-> IF l \in topo.fixed THEN Published(l[1]) ELSE EmptyBag]
    /\ exists = [u \in Units |-> FALSE]
    /\ running = [u \in Units |-> FALSE]
    /\ leader = [u \in Units |-> FALSE]
    /\ status = [u \in Units |-> "maintenance"]
    /\ stored = [u \in Units |-> DefaultStored(u)]
    /\ planEnv = [u \in Units |-> EmptyBag]
    /\ startedEver = [u \in Units |-> FALSE]
    /\ k8s = [u \in Units |-> NoK8s]
    /\ scan = NoScan
    /\ last = NoLast

\* relation-joined delivered for the relation that was joined before the
\* election.
JoinedBeforeElection(u) ==
    ~leader[u] /\ RelationJoinedWith(u, {MaxPebbleCalls}, {TRUE})

\* The instance becomes the leader once the relation-joined event of its
\* endpoint has been handled.
Elected(u) ==
    /\ u \in deployed /\ ~leader[u]
    /\ last.handler = "relation_joined" /\ last.unit = u
    /\ leader' = [leader EXCEPT ![u] = TRUE]
    /\ last' = NoLast
    /\ UNCHANGED <<topo, joined, bag, exists, running, status, stored, planEnv,
                   startedEver, k8s, scan>>

NextLeader ==
    \/ \E u \in Units : PebbleReadyWith(u, {MaxPebbleCalls}, {TRUE}, DetectIn(u))
    \/ \E u \in Units : RelationEventWith(u, {MaxPebbleCalls}, {TRUE}, DetectIn(u))
    \/ \E u \in Units : JoinedBeforeElection(u)
    \/ \E u \in Units : Elected(u)
    \/ \E l \in Links : Join(l)

\* Juju delivers the relation-joined event of a relation that was joined.
\* Pebble-ready and the dependency relation events occur any number of
\* times; nothing forces another one.
SpecLeaderFair ==
    /\ InitLeader /\ [][NextLeader]_vars
    /\ \A u \in Units : WF_vars(JoinedBeforeElection(u))

----------------------------------------------------------------------------
(* Start and stop: one charm with every event it observes, pebble failing  *)
(* at any point, while one of its relations comes and goes (the others are *)
(* joined and published from the start).                                   *)

RunTopologies ==
    { [units |-> {u},
       links |-> IF DepLinks(u) = {} THEN {} ELSE {CHOOSE l \in DepLinks(u) : TRUE},
       fixed |-> IF DepLinks(u) = {} THEN {}
                 ELSE DepLinks(u) \ {CHOOSE l \in DepLinks(u) : TRUE},
       faults |-> TRUE, api |-> FALSE] : u \in Units }

SpecRun == InitWith(RunTopologies) /\ [][NextEvents]_vars

----------------------------------------------------------------------------
(* Properties.  They speak about the handler that ran last: its unit, how *)
(* it ended and the sequence of steps it took.                             *)

Has(c) == \E i \in DOMAIN last.calls : last.calls[i] = c

\* Some step a comes before every step b.
Before(a, b) ==
    \E i \in DOMAIN last.calls :
        /\ last.calls[i] = a
        /\ \A j \in DOMAIN last.calls : last.calls[j] = b => i < j

\* The last handler was a reconciliation pass: _update_service, alone or
\* after the base layer of pebble-ready.
Pass == last.handler \in {"pebble_ready", "relation_event"}

\* C1: whenever a handler of a unit with dependencies sets the status to
\* Active, every declared dependency is satisfied by the relation contents at
\* that moment.  (The handler of amf for its own endpoint does not look at
\* nrf and db.)
C1_ActiveOnlyWhenSatisfied ==
    (last.unit \in Dependent /\ Has("status:active")) => Satisfied(last.unit)

\* C2 as stated: a pass of a dependent unit that runs to completion while a
\* dependency is unsatisfied ends Blocked with the workload not running.
C2_UnsatisfiedPassBlocks ==
    (Pass /\ last.unit \in Dependent /\ last.out = "done" /\ ~Satisfied(last.unit))
        => (status[last.unit] = "blocked" /\ ~running[last.unit])

\* C2: a pass of a dependent unit that runs to completion while a dependency
\* is unsatisfied ends with the workload not running, and with the status
\* Blocked, except on amf while its service is not in the pebble plan: there
\* the pass returns at once and the status is the one before the pass.
C2_UnsatisfiedPassBlocksOnceInPlan ==
    (Pass /\ last.unit \in Dependent /\ last.out = "done" /\ ~Satisfied(last.unit))
        => /\ ~running[last.unit]
           /\ IF last.unit = "amf" /\ ~exists["amf"]
              THEN last.kept /\ last.calls = <<>>
              ELSE status[last.unit] = "blocked"

\* A running smf loses a dependency; the pass stops it and sets Blocked.
C2_Witness ==
    /\ Pass /\ last.unit = "smf" /\ last.out = "done" /\ ~Satisfied("smf")
    /\ Has("stop") /\ ~last.kept /\ status["smf"] = "blocked"

\* C3: after a provider with dependencies has stopped its workload and set
\* Blocked in a pass that found a dependency lost, the data on its own
\* endpoint no longer satisfies the readiness predicate of its consumer.
C3_NoStaleReadiness ==
    \A l \in Links :
        (/\ l[1] \in deployed \cap Dependent /\ l[2] \in deployed
         /\ Pass /\ last.unit = l[1] /\ last.out = "done"
         /\ Has("stop") /\ status[l[1]] = "blocked" /\ ~Satisfied(l[1]))
            => ~SatisfiedDep(l[2], l[1])

\* C4: in a deployment of a provider and its consumer, the consumer's
\* workload is never started before the provider has started its own, and in
\* the pass that starts the consumer the provider's readiness data is on the
\* relation between them.
C4_ConsumerStartsAfterProvider ==
    \A l \in Links :
        (l[1] \in deployed /\ l[2] \in deployed) =>
            /\ startedEver[l[2]] => startedEver[l[1]]
            /\ (last.unit = l[2] /\ Has("start")) => SatisfiedDep(l[2], l[1])

\* A consumer is started by a pass, with its provider in the same deployment.
C4_Witness ==
    \E l \in Links :
        /\ l[1] \in deployed /\ l[2] \in deployed
        /\ last.unit = l[2] /\ Pass /\ Has("start") /\ startedEver[l[1]]

\* C5: every write of readiness data into an own endpoint is made by a unit
\* that is, at the moment of the write, the leader and has its workload
\* running.
C5_PublishOnlyLeaderAndRunning == last.wrote => last.writeOk

\* C6: no handler ends with an unhandled ConnectionError of the pebble client.
C6_ConnectionErrorNeverPropagates == last.out # "raised:ConnectionError"

\* C7: a pass aborted by an unreachable pebble leaves the unit status as it
\* was before the pass and defers the event.
C7_AbortedPassKeepsStatus ==
    (Pass /\ last.out \in {"deferred", "raised:ConnectionError"})
        => (last.out = "deferred" /\ last.kept)

\* C8: a handler of a dependent unit starts the main workload only when every
\* declared dependency is satisfied by the relation contents it read; a pass
\* that finds a dependency unsatisfied never starts it.
C8_StartOnlyWhenSatisfied ==
    (last.unit \in Dependent /\ Has("start")) => (Pass /\ Satisfied(last.unit))

\* A pass on a relation event starts the workload of a dependent unit.
C8_Witness ==
    /\ last.unit \in Dependent /\ last.handler = "relation_event"
    /\ Has("start") /\ running[last.unit]

\* The relation values a pass of u resolves, as _load_<d>_data stores them.
Resolved(u) ==
    [d \in Deps(u) |-> [k \in LoadKeys(u, d) |-> Get(bag[<<d, u>>], k)]]

\* C9: in a pass that starts the main workload of a dependent unit, the
\* layer built from the values resolved in that pass is applied before the
\* start, and readiness data is written only after the start.
C9_ConfigureStartPublish ==
    (last.unit \in Dependent /\ Has("start")) =>
        /\ Before("configure", "start")
        /\ Has("publish") => (Before("start", "publish") /\ Before("configure", "publish"))
        /\ \A e \in DOMAIN DepEnv(last.unit, Resolved(last.unit)) :
               Get(planEnv[last.unit], e) = DepEnv(last.unit, Resolved(last.unit))[e]

\* A pass configures, starts and publishes.
C9_Witness ==
    /\ last.unit \in Dependent /\ Pass
    /\ Has("configure") /\ Has("start") /\ Has("publish")

C11_NoPublishWithoutActivation ==
    (Pass /\ Has("detect:false")) => (~Has("publish") /\ ~last.wrote)

\* C12: after a pass of amf in which the scan did not confirm activation the
\* status is Blocked, and the next pass, run with nrf and db still satisfied,
\* configures, starts and waits for activation again.
C12_RetryAfterFailedActivation ==
    [][(/\ Pass /\ last.unit = "amf" /\ last.out = "done" /\ Has("detect:false")
        /\ Pass' /\ last'.unit = "amf" /\ last'.out = "done" /\ Satisfied("amf")')
           => /\ status["amf"] = "blocked"
              /\ Has("configure")' /\ Has("start")'
              /\ Has("detect:true")' \/ Has("detect:false")']_vars

\* C13: a pass of a dependent unit that finds a declared dependency
\* unsatisfied writes nothing to any relation: the relation data after the
\* pass is the data before it, and no publish step is taken.
C13_UnsatisfiedPassWritesNothing ==
    [][(Pass' /\ last'.unit \in Dependent /\ ~Satisfied(last.unit)')
           => (bag' = bag /\ ~Has("publish")' /\ ~last'.wrote)]_vars

\* A provider that had published loses a dependency; its pass stops the
\* workload and the data published earlier is still on its endpoint.
C13_Witness ==
    /\ Pass /\ last.unit \in Dependent \cap Providers /\ last.out = "done"
    /\ ~Satisfied(last.unit) /\ Has("stop")
    /\ \E l \in Provided(last.unit) : joined[l] /\ bag[l] = Published(last.unit)

\* C14 as stated: when the same pass runs twice in succession on a unit, both
\* to completion and with no change to relations, leadership or workload
\* between them, the second leaves the unit status as the first left it,
\* issues no start, and any configure or publish it issues leaves the plan
\* and the relation data as they were.
C14_SecondPassChangesNothing ==
    [][(/\ Pass /\ last.out = "done"
        /\ Pass' /\ last'.out = "done"
        /\ last'.unit = last.unit /\ last'.handler = last.handler)
           => /\ status' = status
              /\ ~Has("start")'
              /\ Has("configure")' => planEnv' = planEnv
              /\ Has("publish")' => bag' = bag]_vars

\* The last handler was a pass that ran to completion and whose workload, if
\* the pass started it, was still running when the pass ended.
SettledPass ==
    /\ Pass /\ last.out = "done"
    /\ Has("start") => running[last.unit]

\* C14: when the same pass runs twice in succession on a unit, both to
\* completion and with nothing changed outside the unit meanwhile (the
\* workload started by the first has not exited on its own), the second
\* leaves the unit status as the first left it, issues no start, and any
\* configure or publish it issues leaves the plan and the relation data as
\* they were.
C14_PassIsIdempotent ==
    [][(/\ SettledPass
        /\ Pass' /\ last'.out = "done"
        /\ last'.unit = last.unit /\ last'.handler = last.handler)
           => /\ status' = status
              /\ ~Has("start")'
              /\ Has("configure")' => planEnv' = planEnv
              /\ Has("publish")' => bag' = bag]_vars

\* A pass of smf that finds the workload, started by an earlier pass, running:
\* it configures again and starts nothing.
C14_Witness ==
    /\ Pass /\ last.unit = "smf" /\ last.out = "done" /\ Satisfied("smf")
    /\ Has("configure") /\ ~Has("start") /\ running["smf"] /\ status["smf"] = "active"

\* What is_<p>_ready of consumer c answers once c has loaded the relation.
ReadsReady(c, p) ==
    is_ready(load_data(Machine(c, MaxPebbleCalls, FALSE, FALSE), p), p)

\* C15: for every provider/consumer pair, once the provider has written its
\* readiness data on the relation between them, the consumer's readiness
\* check for that dependency is true when it next loads the relation.
C15_PublishedDataReadsReady ==
    \A l \in Links :
        (/\ l[1] \in deployed /\ l[2] \in deployed /\ joined[l]
         /\ last.unit = l[1] /\ Has("publish") /\ last.wrote)
            => ReadsReady(l[2], l[1])

\* gnb has published on the relation with ue, and ue reads it as ready.
C15_Witness ==
    /\ {"gnb", "ue"} \subseteq deployed /\ joined[<<"gnb", "ue">>]
    /\ last.unit = "gnb" /\ Has("publish") /\ last.wrote
    /\ ReadsReady("ue", "gnb")

\* What is_<d>_ready of u answers on the values its last pass stored.
StoredReady(u, d) == is_ready(Machine(u, MaxPebbleCalls, FALSE, FALSE), d)

\* C16: a pass that loads a dependency whose relation is absent, or present
\* with a required key missing or empty, resolves it unsatisfied whatever an
\* earlier pass had stored, and does not start the workload.
C16_AbsentOrPartialIsUnsatisfied ==
    \A d \in Deps(last.unit) :
        (/\ Pass /\ Has("load:" \o d) /\ last.out \in {"done", "deferred"}
         /\ ~SatisfiedDep(last.unit, d))
            => (~StoredReady(last.unit, d) /\ ~Has("start"))

\* A unit whose earlier pass found everything ready and started the workload
\* now loads a relation that is present with a required key missing or empty.
C16_Witness ==
    \E d \in Deps(last.unit) :
        /\ Pass /\ Has("load:" \o d) /\ last.out = "done" /\ startedEver[last.unit]
        /\ joined[<<d, last.unit>>] /\ bag[<<d, last.unit>>] # EmptyBag
        /\ ~SatisfiedDep(last.unit, d) /\ ~StoredReady(last.unit, d)

\* The last handler loaded dependency d of its unit and its stored values
\* were kept.
Loaded(d) == Pass /\ Has("load:" \o d) /\ last.out \in {"done", "deferred"}

\* C17 as stated: the readiness check of a dependency is true exactly when the
\* relation exists and every required key is present with a non-empty value,
\* the ready flags included.
C17_ReadyIffKeysNonEmpty ==
    \A d \in Deps(last.unit) :
        Loaded(d) => (StoredReady(last.unit, d) <=> SatisfiedDep(last.unit, d))

\* The relation of u with d exists and holds what the readiness check of u
\* asks for: the string "True" under ready for a flag dependency, a non-empty
\* value under every required key otherwise (host alone for ue on gnb).
HoldsWhatIsChecked(u, d) ==
    /\ joined[<<d, u>>]
    /\ IF FlagDep(u, d)
       THEN Get(bag[<<d, u>>], "ready") = "True"
       ELSE \A k \in ReadyKeys(u, d) : Truthy(Get(bag[<<d, u>>], k))

\* C17: the readiness check of a dependency is true exactly when the relation
\* exists and every required key is present with a non-empty value; for the
\* ready-flag dependencies (spgwu on smf, gnb on spgwu) exactly when the
\* relation exists and ready is the string "True".
C17_ReadyIffKeysAsChecked ==
    \A d \in Deps(last.unit) :
        Loaded(d) => (StoredReady(last.unit, d) <=> HoldsWhatIsChecked(last.unit, d))

\* spgwu loads an smf relation whose ready flag is non-empty but not "True",
\* and resolves smf as not ready.
C17_Witness ==
    /\ last.unit = "spgwu" /\ Loaded("smf") /\ joined[<<"smf", "spgwu">>]
    /\ Get(bag[<<"smf", "spgwu">>], "ready") = "False"
    /\ ~StoredReady("spgwu", "smf")

\* C18: when a unit evaluates a dependency in two successive passes, the
\* relations unchanged between them, the second evaluation gives the answer
\* of the first.
C18_SameSnapshotSameAnswer ==
    [][\A d \in Deps(last.unit) :
          (Loaded(d) /\ Loaded(d)' /\ last'.unit = last.unit)
              => (StoredReady(last.unit, d)' <=> StoredReady(last.unit, d))]_vars

\* A pass evaluates a dependency as ready while the workload, started by an
\* earlier pass on the same data, is running: nothing is started again.
C18_Witness ==
    \E d \in Deps(last.unit) :
        /\ Loaded(d) /\ last.out = "done" /\ StoredReady(last.unit, d)
        /\ Satisfied(last.unit) /\ running[last.unit] /\ ~Has("start")

\* C19: a pass of a dependent unit run on a relation event while the
\* workload's service is not in the pebble plan, pebble being reachable,
\* returns normally, issues no configure, start or stop, changes no unit
\* status and writes no relation data.
C19_NoActionBeforeServiceExists ==
    (/\ last.handler = "relation_event" /\ last.unit \in Dependent
     /\ ~exists[last.unit]
     /\ last.out \notin {"deferred", "raised:ConnectionError"})
        => /\ last.out = "done" /\ last.kept /\ ~last.wrote
           /\ ~Has("configure") /\ ~Has("start") /\ ~Has("stop")

\* The steps of the reconciliation pass on the main workload.
PassSteps == {"base_layer", "configure", "start", "stop", "publish"}
                 \cup { "load:" \o d : d \in Units }

RunPass(u, s, st) ==
    update_service([Machine(u, MaxPebbleCalls, FALSE, TRUE)
                        EXCEPT !.status = s, !.stored = st])

\* C21: a completed pass ends with the same unit status and workload run
\* state whatever status and stored dependency values the unit held before,
\* the relation contents, leadership and runtime state being the same: the
\* unit as it is and a copy of it that holds the status and the stored values
\* of a unit none of whose passes has completed end alike.
C21_OutcomeIndependentOfHistory ==
    \A u \in deployed \cap Dependent :
        LET a == RunPass(u, status[u], stored[u])
            b == RunPass(u, "maintenance", DefaultStored(u))
        IN  (exists[u] /\ Outcome(a) = "done" /\ Outcome(b) = "done")
                => (a.status = b.status /\ a.running = b.running)

\* C22: across any sequence of install events of a unit, the StatefulSet
\* patch goes through at most once.
C22_PatchSucceedsAtMostOnce == \A u \in Units : k8s[u].patches <= 1

\* C23: across any sequence of install events of a unit, the cluster service
\* is deleted and recreated with the charm's ports at most once.
C23_PortsRemappedAtMostOnce == \A u \in Units : k8s[u].ports <= 1

\* How many times step c was taken by the handler that ran last.
Count(c) == Cardinality({ i \in DOMAIN last.calls : last.calls[i] = c })

\* C24: one install hook makes at most 5 patch attempts; when all 5 fail the
\* persisted flag stays false, the unit status is not Active and the hook
\* returns normally.
C24_PatchExhaustionIsNotACrash ==
    last.handler = "install"
        => /\ Count("patch_failed") + Count("patched") <= PatchAttempts
           /\ Count("patch_failed") = PatchAttempts
                  => /\ ~k8s[last.unit].patched
                     /\ status[last.unit] # "active"
                     /\ last.out = "done"

\* The cluster refused the StatefulSet patch on every attempt, or refused
\* the service remapping.
Refused ==
    /\ last.handler = "install"
    /\ Count("patch_failed") = PatchAttempts \/ last.out = "raised:PatchFailed"

\* C25: an install hook whose privileged cluster operation was refused ends
\* with the unit Blocked and returns normally.
C25_RefusedOperationBlocks ==
    Refused => (status[last.unit] = "blocked" /\ last.out = "done")

\* C26: search_logs(logs=tokens) has returned True as soon as every token
\* has occurred in some line read, in whatever order and however many tokens
\* a line holds.
C26_TrueOnceEveryTokenSeen ==
    (scan.state \in {"scanning", "true", "false"} /\ scan.logs # {}
     /\ scan.logs \subseteq scan.seen)
        => scan.state = "true"

\* Every token has occurred in the lines read so far (in the same line, for
\* subsets_in_line).
AllSeen ==
    IF scan.logs # {} THEN scan.logs \subseteq scan.seen ELSE scan.subsets \subseteq scan.line

\* C27: a scan whose lines never hold all the tokens comes to an end although
\* the workload keeps writing.
C27_ScanEnds ==
    (scan.state = "scanning") ~> (scan.state # "scanning" \/ AllSeen)

\* C28: a leader whose workload was started by reconciliation eventually has
\* its full readiness key set in every relation joined on its endpoint,
\* joined before the start or after it.
C28_StartedProviderPublishes ==
    \A l \in Links :
        (l \in topo.links /\ startedEver[l[1]] /\ joined[l]) ~> (bag[l] = Published(l[1]))

\* The relation was joined after the workload had started, and the
\* relation-joined handler wrote the key set.
C28_Witness ==
    \E l \in topo.links :
        /\ last.unit = l[1] /\ last.handler = "relation_joined" /\ last.wrote
        /\ startedEver[l[1]] /\ joined[l] /\ bag[l] = Published(l[1])

EnvInPlanCurrent(u) ==
    \A t \in EnvTable(u) : Get(planEnv[u], t[1]) = Get(bag[<<t[2], u>>], t[3])

\* C30: after a completed pass that found every dependency satisfied, the
\* dependency-derived environment of the workload in the plan holds the
\* values of the relations, also when the workload was running already and
\* after pebble-ready has applied the base layer again.
C30_PlanFollowsRelations ==
    (/\ Pass /\ last.out = "done" /\ last.unit \in Dependent
     /\ exists[last.unit]
     /\ \A d \in Deps(last.unit) : StoredReady(last.unit, d))
        => EnvInPlanCurrent(last.unit)

\* C31: in every dependent unit, a pass that takes the unit from Active to
\* Blocked while its workload runs issues stop, and issues it before it sets
\* the status to Blocked.
C31_StopBeforeBlocked ==
    [][\A u \in Dependent :
          (/\ status[u] = "active" /\ running[u]
           /\ Pass' /\ last'.unit = u /\ status'[u] = "blocked")
              => Before("stop", "status:blocked")']_vars

\* C32: the detector counts only lines written after search_logs was called:
\* when it answers true for a set of tokens, every token occurred in such a
\* line, and when it answers true for a line holding all given strings, that
\* line was written after the call.
C32_OnlyOutputAfterTheCall ==
    scan.state = "true" =>
        IF scan.logs # {} THEN scan.logs \subseteq scan.fresh ELSE scan.live

\* C33: no handler issues start for a service that is running or stop for one
\* that is not: for the main workload of every unit, and for the tcpdump side
\* service in every config-changed handler.
C33_NoStartWhenRunningNoStopWhenIdle ==
    [][/\ \A u \in Units :
            (last'.unit = u /\ last'.handler # "none")
                => /\ Has("start")' => ~running[u]
                   /\ Has("stop")' => running[u]
       /\ (Has("tcpdump:start") \/ Has("tcpdump:stop"))'
            => \A fail \in FailPoints, startTcpdump \in BOOLEAN, tcpRunning \in BOOLEAN :
                  ConfigChangedWith(last'.unit, fail, startTcpdump, tcpRunning)
                      => /\ Has("tcpdump:start")' => ~tcpRunning
                         /\ Has("tcpdump:stop")' => tcpRunning]_vars

\* A pass that finds every dependency ready and the workload already running
\* configures it and issues no start.
C33_Witness ==
    /\ Pass /\ last.out = "done" /\ last.unit \in GenericUnits \cup {"ue"}
    /\ running[last.unit] /\ Has("configure") /\ ~Has("start")

\* _configure_service of unit u, run on the state as it is with pebble
\* reachable.
Configured(u) ==
    LET m == Machine(u, MaxPebbleCalls, FALSE, FALSE)
    IN  IF u = "amf" THEN Amf_configure_service(m) ELSE Gen_configure_service(m)

\* C34: _configure_service, with pebble reachable, applies no layer and
\* raises nothing when the service is not in the plan; when it is, every
\* environment key the dependency layer does not name keeps its value and
\* every key it names takes the value resolved from the stored data.
C34_ConfigureMerges ==
    \A u \in deployed \cap Dependent :
        LET c == Configured(u)
            layer == DepEnv(u, stored[u])
        IN  /\ Outcome(c) = "done"
            /\ ~exists[u] => (c.env = planEnv[u] /\ c.calls = <<>>)
            /\ exists[u] =>
                  /\ c.calls = <<"configure">>
                  /\ DOMAIN c.env = (DOMAIN planEnv[u]) \cup (DOMAIN layer)
                  /\ \A k \in (DOMAIN planEnv[u]) \ (DOMAIN layer) : c.env[k] = planEnv[u][k]
                  /\ \A k \in DOMAIN layer : c.env[k] = layer[k]

\* The plan of a dependent unit holds a key of the base layer and a
\* dependency-derived key whose value is no longer the resolved one.
C34_Witness ==
    \E u \in deployed \cap Dependent :
        /\ exists[u]
        /\ (DOMAIN planEnv[u]) \ (DOMAIN DepEnv(u, stored[u])) # {}
        /\ \E k \in (DOMAIN planEnv[u]) \cap (DOMAIN DepEnv(u, stored[u])) :
              planEnv[u][k] # DepEnv(u, stored[u])[k]

\* C35: in every provider, the handler of relation-joined on its own
\* endpoint leaves the unit status, the plan, the run state of the workload
\* and the stored dependency values as they were, and issues no configure,
\* start or stop.
C35_JoinedIsPublishOnly ==
    [][\A u \in Providers :
          (last'.handler = "relation_joined" /\ last'.unit = u)
              => /\ status'[u] = status[u] /\ stored'[u] = stored[u]
                 /\ running'[u] = running[u] /\ exists'[u] = exists[u]
                 /\ planEnv'[u] = planEnv[u]
                 /\ \A i \in DOMAIN last'.calls : last'.calls[i] = "publish"]_vars

\* A relation-joined handler has written the readiness data.
C35_Witness ==
    /\ last.handler = "relation_joined" /\ last.out = "done" /\ Has("publish")
    /\ bag # [l \in Links |-> IF l \in topo.fixed THEN Published(l[1]) ELSE EmptyBag]

StatusSteps == {"status:maintenance", "status:waiting", "status:active", "status:blocked"}

\* C36: the unit status is assigned only in the reconciliation pass: a
\* handler other than pebble-ready and the dependency relation events
\* (install, config-changed, relation-joined and relation-changed on the own
\* endpoint) makes no assignment to it.
C36_StatusSetOnlyInPass ==
    (last.handler # "none" /\ ~Pass) => \A i \in DOMAIN last.calls : last.calls[i] \notin StatusSteps

\* C37: a handler changes relation data only through the write loop of
\* _provide_service_info, which writes the readiness data of the unit and
\* does so only when the unit is leader and its workload runs; every other
\* handler leaves every data bag as it found it.
C37_OnlyPublisherWritesRelationData ==
    [][(last'.handler # "none" /\ bag' # bag)
          => /\ Has("publish")' /\ last'.writeOk
             /\ \A l \in Links :
                   bag'[l] # bag[l] => bag'[l] = Write(bag[l], Published(last'.unit))]_vars

\* C38: amf writes "registered" for the name of a gNB or the IMSI of a UE
\* only after its scan has read a line holding the marker and that name; a
\* handler whose scan ended without such a line writes nothing and does not
\* set the status to Active.
C38_RegisteredOnlyAfterObserved ==
    \A name \in {GnbName, UeImsi} :
        /\ Has("registered:" \o name) => Before("scan:" \o name, "registered:" \o name)
        /\ (last.handler = "amf_relation_changed" /\ Has("scan_ended:" \o name))
              => (~Has("registered:" \o name) /\ ~Has("status:active"))

\* C39: in smf, spgwu, gnb and nr-ue, a dependency relation event handled
\* while the service is not yet in the plan and every dependency is
\* satisfied ends without an exception leaving the handler.
C39_EarlyRelationEventDoesNotRaise ==
    (/\ last.handler = "relation_event" /\ last.unit \in GenericUnits \cup {"ue"}
     /\ ~exists[last.unit] /\ Satisfied(last.unit))
        => last.out \notin {"raised:ModelError", "raised:ConnectionError"}

\* C40: a provider instance that is the leader, with its workload running
\* and a relation on its endpoint joined and still without readiness data,
\* writes the data eventually.
C40_LateLeaderPublishes ==
    (\E l \in topo.links : leader[l[1]] /\ running[l[1]] /\ joined[l] /\ bag[l] = EmptyBag)
        ~> (\A l \in topo.links : bag[l] # EmptyBag)
====
